---- MODULE Spec2Model ----
(***************************************************************************)
(* Doodlebugs and ants: the per-tick update engine of src/doodlebug.cpp.   *)
(*                                                                         *)
(* Organisms live on the C++ heap and are known to the World by pointer.   *)
(* The model keeps the heap explicitly (address -> object), so that a      *)
(* pointer held in the scheduler's snapshot after `delete` is what it is   *)
(* in the program: an address that operator new may hand out again.        *)
(***************************************************************************)
EXTENDS Integers, Sequences, FiniteSets

\* ---------------------------------------------------------------- bounds
MaxSize == 3          \* World(size): grids of side 1..MaxSize
MaxInitAnts == 2      \* initialize(): at most this many Ants placed
MaxInitDoodles == 2   \* initialize(): at most this many Doodlebugs placed
MaxInit == 3          \* initialize(): at most this many organisms placed
MaxWork == 192        \* update() is called while age * size^4 < MaxWork
SpareAddr == 1        \* heap addresses beyond one per cell

\* ------------------------------------------------------ program constants
ANT_BREED == 3
DOODLE_BREED == 8
DOODLE_STARVE == 3

NULL == 0
Addr == 1..(MaxSize * MaxSize + SpareAddr)

VARIABLES size, age, grid, allOrgs, heap, pc, snapshot, idx,
          bornNow, actedNow, removedNow, last, seeded, extinct

vars == <<size, age, grid, allOrgs, heap, pc, snapshot, idx,
          bornNow, actedNow, removedNow, last, seeded, extinct>>

\* ------------------------------------------------------------ the heap
\* A freed (or never allocated) address.
FreeObj == [kind |-> "free", x |-> 0, y |-> 0, breedCount |-> 0, starveCount |-> 0]

\* Ant(x, y): Organism(x, y, 'o'), breedCount(0).  An Ant has no starveCount;
\* the field is carried as 0 and never read for an Ant.
NewAnt(x, y) == [kind |-> "Ant", x |-> x, y |-> y, breedCount |-> 0, starveCount |-> 0]

\* Doodlebug(x, y): Organism(x, y, 'X'), starveCount(0).
NewDoodlebug(x, y) ==
    [kind |-> "Doodlebug", x |-> x, y |-> y, breedCount |-> 0, starveCount |-> 0]

FreeAddrs(h) == {a \in Addr : h[a].kind = "free"}

\* operator new: an address that holds no live object.  It may be one that
\* was freed and that the snapshot `snap` still holds (each of those is a
\* distinct outcome), or one that nothing refers to; the latter are
\* interchangeable, since the program only ever compares addresses for
\* equality, and the least stands for them all.
NewAddrs(h, snap) ==
    LET dangling == {a \in FreeAddrs(h) : \E k \in 1..Len(snap) : snap[k] = a}
        fresh == FreeAddrs(h) \ dangling
    IN dangling \cup (IF fresh = {} THEN {}
                      ELSE {CHOOSE a \in fresh : \A b \in fresh : a <= b})

\* ------------------------------------------------------- sequence helpers
Range(s) == {s[k] : k \in 1..Len(s)}

\* std::find(first, last, v): index of the first occurrence, 0 for `end`.
Find(s, v) ==
    IF \E k \in 1..Len(s) : s[k] = v
    THEN CHOOSE k \in 1..Len(s) : s[k] = v /\ \A j \in 1..(k - 1) : s[j] # v
    ELSE 0

\* vector::erase(it)
Erase(s, k) == [j \in 1..(Len(s) - 1) |-> IF j < k THEN s[j] ELSE s[j + 1]]

\* std::shuffle with an unobserved generator: every reordering is possible.
InsertAt(s, k, v) ==
    [j \in 1..(Len(s) + 1) |-> IF j < k THEN s[j] ELSE IF j = k THEN v ELSE s[j - 1]]

RECURSIVE Shuffle(_)
Shuffle(s) ==
    IF s = <<>> THEN {<<>>}
    ELSE UNION {{InsertAt(p, k, Head(s)) : k \in 1..(Len(p) + 1)} : p \in Shuffle(Tail(s))}

\* ------------------------------------------------------------ the grid
Cells(n) == (0..(n - 1)) \X (0..(n - 1))

inBounds(n, x, y) == x >= 0 /\ x < n /\ y >= 0 /\ y < n

\* A world value: the three members of World that updates mutate.
getCell(w, x, y) == IF ~inBounds(w.size, x, y) THEN NULL ELSE w.grid[<<x, y>>]

setCell(w, x, y, org) ==
    IF ~inBounds(w.size, x, y) THEN w
    ELSE [w EXCEPT !.grid[<<x, y>>] = org]

\* deleteCell without allOrgs.erase(it).
deleteCell_NoErase(w, x, y) ==
    IF ~inBounds(w.size, x, y) THEN w
    ELSE LET toDelete == w.grid[<<x, y>>]
         IN IF toDelete # NULL
            THEN [w EXCEPT !.heap[toDelete] = FreeObj,
                           !.grid[<<x, y>>] = NULL]
            ELSE w

\* Removes occupant from the grid and from allOrgs, and frees it.
deleteCell(w, x, y) ==
    IF ~inBounds(w.size, x, y) THEN w
    ELSE LET toDelete == w.grid[<<x, y>>]
             it == Find(w.allOrgs, toDelete)
         IN IF toDelete # NULL
            THEN [w EXCEPT !.allOrgs = IF it # 0 THEN Erase(@, it) ELSE @,
                           !.heap[toDelete] = FreeObj,
                           !.grid[<<x, y>>] = NULL]
            ELSE w

dirs == <<<<0, 1>>, <<0, -1>>, <<1, 0>>, <<-1, 0>>>>

\* getNeighbors on a grid whose edges wrap around.
getNeighbors_Wrap(n, x, y) ==
    [k \in 1..4 |-> <<(x + dirs[k][1]) % n, (y + dirs[k][2]) % n>>]

getNeighbors(n, x, y) ==
    LET cand == [k \in 1..4 |-> <<x + dirs[k][1], y + dirs[k][2]>>]
    IN SelectSeq(cand, LAMBDA c : inBounds(n, c[1], c[2]))

\* createAnt(x, y), the object placed at the address `a` that new returned.
createAnt(w, x, y, a) ==
    IF getCell(w, x, y) = NULL
    THEN LET w1 == [w EXCEPT !.heap[a] = NewAnt(x, y)]
             w2 == setCell(w1, x, y, a)
         IN [w2 EXCEPT !.allOrgs = Append(@, a)]
    ELSE w

\* createDoodlebug with `new Ant` for `new Doodlebug`.
createDoodlebug_MakesAnt(w, x, y, a) == createAnt(w, x, y, a)

createDoodlebug(w, x, y, a) ==
    IF getCell(w, x, y) = NULL
    THEN LET w1 == [w EXCEPT !.heap[a] = NewDoodlebug(x, y)]
             w2 == setCell(w1, x, y, a)
         IN [w2 EXCEPT !.allOrgs = Append(@, a)]
    ELSE w

\* ------------------------------------------------------ Organism methods
incBreed(w, o) == [w EXCEPT !.heap[o].breedCount = @ + 1]

resetBreed(w, o) == [w EXCEPT !.heap[o].breedCount = 0]

\* starve() with > for >=.
starve_Late(obj) == obj.starveCount > DOODLE_STARVE

\* Doodlebug::starve()
starve(obj) == obj.starveCount >= DOODLE_STARVE

\* !w.getCell(nx, ny)
IsEmpty(w, c) == getCell(w, c[1], c[2]) = NULL

\* dynamic_cast<Ant *>(w.getCell(nx, ny)) is not null
IsAnt(w, c) ==
    LET occupant == getCell(w, c[1], c[2])
    IN occupant # NULL /\ w.heap[occupant].kind = "Ant"

NoCell == <<-1, -1>>

\* The scan without its emptiness test: the first neighbor is taken.
FirstEmpty_Unchecked(w, nbrs) == IF Len(nbrs) > 0 THEN nbrs[1] ELSE NoCell

\* The cell at which `for (auto &nbr : neighbors)` finds an empty cell and
\* breaks; NoCell when the loop runs to its end.
FirstEmpty(w, nbrs) ==
    IF \E k \in 1..Len(nbrs) : IsEmpty(w, nbrs[k])
    THEN nbrs[CHOOSE k \in 1..Len(nbrs) :
                 IsEmpty(w, nbrs[k]) /\ \A j \in 1..(k - 1) : ~IsEmpty(w, nbrs[j])]
    ELSE NoCell

FirstAnt(w, nbrs) ==
    IF \E k \in 1..Len(nbrs) : IsAnt(w, nbrs[k])
    THEN nbrs[CHOOSE k \in 1..Len(nbrs) :
                 IsAnt(w, nbrs[k]) /\ \A j \in 1..(k - 1) : ~IsAnt(w, nbrs[j])]
    ELSE NoCell

\* What a scan for an empty cell (for an Ant) can hit after
\* shuffle(neighbors.begin(), neighbors.end(), gen).  A reshuffle of the
\* shuffled list has the same outcomes as a shuffle of the list.
EmptyAfterShuffle(w, nbrs) == {FirstEmpty(w, p) : p \in Shuffle(nbrs)}

AntAfterShuffle(w, nbrs) == {FirstAnt(w, p) : p \in Shuffle(nbrs)}

\* MoveTo without w.setCell(getX(), getY(), nullptr).
MoveTo_KeepsOldCell(w, o, nx, ny) ==
    LET w1 == setCell(w, nx, ny, o)
    IN [w1 EXCEPT !.heap[o].x = nx, !.heap[o].y = ny]

\* w.setCell(nx, ny, this); w.setCell(getX(), getY(), nullptr); setPos(nx, ny);
MoveTo(w, o, nx, ny) ==
    LET w1 == setCell(w, nx, ny, o)
        w2 == setCell(w1, w.heap[o].x, w.heap[o].y, NULL)
    IN [w2 EXCEPT !.heap[o].x = nx, !.heap[o].y = ny]

\* The movement loop without the move: the scan's hit is ignored.
Move_Stays(w, o, t) == w

\* The movement loop of Ant::update and of Doodlebug::update (step 3), `t`
\* the cell its scan hit.
Move(w, o, t) == IF t = NoCell THEN w ELSE MoveTo(w, o, t[1], t[2])

\* AntBreed with > for >= in the threshold test.
AntBreed_Late(w, o, t, a) ==
    IF w.heap[o].breedCount > ANT_BREED
    THEN resetBreed(IF t # NoCell THEN createAnt(w, t[1], t[2], a) ELSE w, o)
    ELSE w

\* AntBreed with resetBreed() only when an offspring was placed.
AntBreed_ResetOnlyOnSuccess(w, o, t, a) ==
    IF w.heap[o].breedCount >= ANT_BREED /\ t # NoCell
    THEN resetBreed(createAnt(w, t[1], t[2], a), o)
    ELSE w

\* Ant::update (2) after incBreed: breed into the cell `t` the scan hit; `a`
\* is the address new returns if an Ant is made.
AntBreed(w, o, t, a) ==
    IF w.heap[o].breedCount >= ANT_BREED
    THEN resetBreed(IF t # NoCell THEN createAnt(w, t[1], t[2], a) ELSE w, o)
    ELSE w

\* Eat without w.deleteCell(nx, ny): the Ant is overwritten in the grid only.
Eat_NoDelete(w, o, nx, ny) ==
    LET w2 == MoveTo(w, o, nx, ny)
    IN [w2 EXCEPT !.heap[o].starveCount = 0]

\* Eat without starveCount = 0.
Eat_NoReset(w, o, nx, ny) ==
    LET w1 == deleteCell(w, nx, ny)
    IN MoveTo(w1, o, nx, ny)

\* Doodlebug::update (2), the body of `if (maybeAnt)`.
Eat(w, o, nx, ny) ==
    LET w1 == deleteCell(w, nx, ny)
        w2 == MoveTo(w1, o, nx, ny)
    IN [w2 EXCEPT !.heap[o].starveCount = 0]

\* MoveHungry without starveCount++.
MoveHungry_NoCount(w, o, t) == Move(w, o, t)

\* MoveHungry with starveCount++ only when the Doodlebug did not move.
MoveHungry_CountsOnlyIfStuck(w, o, t) ==
    IF t # NoCell THEN Move(w, o, t)
    ELSE [w EXCEPT !.heap[o].starveCount = @ + 1]

\* Doodlebug::update (3), the body of `if (!ate)`.
MoveHungry(w, o, t) ==
    LET w1 == Move(w, o, t)
    IN [w1 EXCEPT !.heap[o].starveCount = @ + 1]

\* DoodlebugBreed with > for >= in the threshold test.
DoodlebugBreed_Late(w, o, t, a) ==
    IF w.heap[o].breedCount > DOODLE_BREED
    THEN resetBreed(IF t # NoCell THEN createDoodlebug(w, t[1], t[2], a) ELSE w, o)
    ELSE w

\* Doodlebug::update (4) after incBreed.
DoodlebugBreed(w, o, t, a) ==
    IF w.heap[o].breedCount >= DOODLE_BREED
    THEN resetBreed(IF t # NoCell THEN createDoodlebug(w, t[1], t[2], a) ELSE w, o)
    ELSE w

\* ------------------------------------------------------------ the state
World == [size |-> size, grid |-> grid, heap |-> heap, allOrgs |-> allOrgs]

\* The liveness test with != for ==.
IsRemoved_Inverted(orgs, o) == Find(orgs, o) # 0

\* The liveness test of World::update: find(allOrgs, o) == allOrgs.end()
IsRemoved(orgs, o) == Find(orgs, o) = 0

NoStep == [op |-> "none", o |-> NULL, newborn |-> FALSE, again |-> FALSE,
           removed |-> FALSE, ate |-> FALSE, moved |-> FALSE, child |-> NULL]

\* World(size) followed by initialize(): nd Doodlebugs, then na Ants, each at
\* a cell drawn until an empty one is hit.  Addresses are named in allocation
\* order; no code depends on the value of an address, only on its equality.
Init ==
    \E n \in 1..MaxSize, nd \in 0..MaxInitDoodles, na \in 0..MaxInitAnts :
        /\ nd + na <= n * n
        /\ nd + na <= MaxInit
        /\ \E place \in [1..(nd + na) -> Cells(n)] :
              /\ \A a, b \in 1..(nd + na) : a # b => place[a] # place[b]
              /\ size = n
              /\ age = 0
              /\ grid = [c \in Cells(n) |->
                           IF \E a \in 1..(nd + na) : place[a] = c
                           THEN CHOOSE a \in 1..(nd + na) : place[a] = c
                           ELSE NULL]
              /\ heap = [a \in Addr |->
                           IF a <= nd THEN NewDoodlebug(place[a][1], place[a][2])
                           ELSE IF a <= nd + na THEN NewAnt(place[a][1], place[a][2])
                           ELSE FreeObj]
              /\ allOrgs = [a \in 1..(nd + na) |-> a]
              /\ seeded = [ants |-> na, doodles |-> nd]
              /\ extinct = [since |-> IF na = 0 THEN 0 ELSE -1, bred |-> {}]
        /\ pc = "idle"
        /\ snapshot = <<>>
        /\ idx = 0
        /\ bornNow = {}
        /\ actedNow = {}
        /\ removedNow = {}
        /\ last = NoStep

\* update() that returns at once, before age++, when nothing is alive.
Advance_StopsWhenExtinct ==
    /\ pc = "idle"
    /\ allOrgs # <<>>
    /\ age * size * size * size * size < MaxWork
    /\ age' = age + 1
    /\ \E s \in Shuffle(allOrgs) : snapshot' = s
    /\ idx' = 1
    /\ pc' = "loop"
    /\ bornNow' = {}
    /\ actedNow' = {}
    /\ removedNow' = {}
    /\ last' = [NoStep EXCEPT !.op = "advance"]
    /\ UNCHANGED <<size, grid, allOrgs, heap, seeded, extinct>>

\* World::update() up to the loop: age++, copy allOrgs, shuffle the copy.
Advance ==
    /\ pc = "idle"
    /\ age * size * size * size * size < MaxWork
    /\ age' = age + 1
    /\ \E s \in Shuffle(allOrgs) : snapshot' = s
    /\ idx' = 1
    /\ pc' = "loop"
    /\ bornNow' = {}
    /\ actedNow' = {}
    /\ removedNow' = {}
    /\ last' = [NoStep EXCEPT !.op = "advance"]
    /\ UNCHANGED <<size, grid, allOrgs, heap, seeded, extinct>>

\* One iteration of the loop whose liveness test says `continue`.
Skip ==
    /\ pc = "loop"
    /\ idx <= Len(snapshot)
    /\ IsRemoved(allOrgs, snapshot[idx])
    /\ idx' = idx + 1
    /\ last' = [NoStep EXCEPT !.op = "skip", !.o = snapshot[idx],
                              !.removed = snapshot[idx] \in removedNow]
    /\ UNCHANGED <<size, age, grid, allOrgs, heap, pc, snapshot,
                   bornNow, actedNow, removedNow, seeded, extinct>>

\* The effect of o->update(*this) on the model's variables: the world after
\* it, the address freed by it (or NULL) and the address allocated (or NULL).
Updated(o, w, op, freed, made) ==
    /\ grid' = w.grid
    /\ heap' = w.heap
    /\ allOrgs' = w.allOrgs
    /\ idx' = idx + 1
    /\ bornNow' = (bornNow \ {freed}) \cup ({made} \ {NULL})
    /\ actedNow' = ((actedNow \cup {o}) \ {freed}) \ {made}
    /\ removedNow' = removedNow \cup
                       (IF freed # NULL /\ freed \notin bornNow THEN {freed} ELSE {})
    /\ last' = [op |-> op, o |-> o,
                newborn |-> o \in bornNow,
                again |-> o \in actedNow,
                removed |-> o \in removedNow,
                ate |-> (freed # NULL /\ freed # o),
                moved |-> (w.heap[o].kind # "free" /\
                           <<w.heap[o].x, w.heap[o].y>> # <<heap[o].x, heap[o].y>>),
                child |-> made]
    /\ extinct' =
          [since |-> IF extinct.since = -1 /\ \A a \in Addr : w.heap[a].kind # "Ant"
                     THEN age ELSE extinct.since,
           bred |-> IF extinct.since = -1 THEN {}
                    ELSE (extinct.bred \ {freed}) \cup
                         (IF op = "doodle" /\ heap[o].breedCount + 1 >= DOODLE_BREED
                          THEN {o} ELSE {})]
    /\ UNCHANGED <<size, age, pc, snapshot, seeded>>

\* One iteration that dispatches to Ant::update.
AntUpdate ==
    /\ pc = "loop"
    /\ idx <= Len(snapshot)
    /\ ~IsRemoved(allOrgs, snapshot[idx])
    /\ heap[snapshot[idx]].kind = "Ant"
    /\ LET o == snapshot[idx]
           neighbors == getNeighbors(size, heap[o].x, heap[o].y)
       IN \E t1 \in EmptyAfterShuffle(World, neighbors) :
            LET w1 == incBreed(Move(World, o, t1), o)
            IN \E t2 \in EmptyAfterShuffle(w1, neighbors) :
               \E a \in NewAddrs(w1.heap, snapshot) :
                 LET w2 == AntBreed(w1, o, t2, a)
                 IN Updated(o, w2, "ant", NULL,
                            IF w2.heap[a].kind # "free" THEN a ELSE NULL)

\* One iteration that dispatches to Doodlebug::update.
DoodlebugUpdate ==
    /\ pc = "loop"
    /\ idx <= Len(snapshot)
    /\ ~IsRemoved(allOrgs, snapshot[idx])
    /\ heap[snapshot[idx]].kind = "Doodlebug"
    /\ LET o == snapshot[idx]
           neighbors == getNeighbors(size, heap[o].x, heap[o].y)
       IN IF starve(heap[o])
          THEN Updated(o, deleteCell(World, heap[o].x, heap[o].y), "starve",
                       getCell(World, heap[o].x, heap[o].y), NULL)
          ELSE \E prey \in AntAfterShuffle(World, neighbors) :
               \E t1 \in EmptyAfterShuffle(World, neighbors) :
                 LET eaten == getCell(World, prey[1], prey[2])
                     w1 == incBreed(IF prey # NoCell
                                    THEN Eat(World, o, prey[1], prey[2])
                                    ELSE MoveHungry(World, o, t1), o)
                 IN \E t2 \in EmptyAfterShuffle(w1, neighbors) :
                    \E a \in NewAddrs(w1.heap, snapshot) :
                      LET w2 == DoodlebugBreed(w1, o, t2, a)
                      IN Updated(o, w2, "doodle", eaten,
                                 IF w2.heap[a].kind # "free" THEN a ELSE NULL)

\* The loop runs off the end of the snapshot and update() returns.
Return ==
    /\ pc = "loop"
    /\ idx > Len(snapshot)
    /\ pc' = "idle"
    /\ snapshot' = <<>>
    /\ idx' = 0
    /\ last' = [NoStep EXCEPT !.op = "return"]
    /\ UNCHANGED <<size, age, grid, allOrgs, heap, bornNow, actedNow,
                   removedNow, seeded, extinct>>

Next == Advance \/ Skip \/ AntUpdate \/ DoodlebugUpdate \/ Return

Spec == Init /\ [][Next]_vars

\* ------------------------------------------------------------ vocabulary
\* The objects that exist: allocated and not yet deleted.
Live == {a \in Addr : heap[a].kind # "free"}

Pos(a) == <<heap[a].x, heap[a].y>>

\* The cells in which the grid holds the pointer a.
CellsOf(a) == {c \in Cells(size) : grid[c] = a}

\* Orthogonally adjacent cells.
Adjacent(c, d) ==
    \/ c[1] = d[1] /\ (c[2] - d[2] = 1 \/ d[2] - c[2] = 1)
    \/ c[2] = d[2] /\ (c[1] - d[1] = 1 \/ d[1] - c[1] = 1)

\* The loop of World::update is about to call update on a live organism.
Turn == pc = "loop" /\ idx <= Len(snapshot) /\ snapshot[idx] \in Range(allOrgs)

IsUpdate(step) == step.op \in {"ant", "doodle", "starve"}

\* ------------------------------------------------------------------ C1
\* C1: after every organism update and every tick, every live organism's
\* recorded (x, y) is in bounds, the grid holds it at exactly that cell and
\* at no other, and no two live organisms record the same position.
C1_PositionMatchesGrid ==
    /\ \A a \in Live :
          /\ heap[a].x >= 0 /\ heap[a].x < size
          /\ heap[a].y >= 0 /\ heap[a].y < size
          /\ CellsOf(a) = {Pos(a)}
    /\ \A a, b \in Live : a # b => Pos(a) # Pos(b)

\* An update that moved its organism and bred has just run.
C1_Witness == IsUpdate(last) /\ last.moved /\ last.child # NULL /\ Cardinality(Live) >= 3

\* ------------------------------------------------------------------ C2
\* C2: an organism created by breeding during tick T never has update
\* invoked during tick T.
C2_NewbornNeverActs == IsUpdate(last) => ~last.newborn

\* ------------------------------------------------------------------ C3
\* C3: after every organism update and every tick, allOrgs and the grid
\* describe the same set of organisms: allOrgs has no duplicates, each of
\* its entries is a live object held by exactly one cell, and every
\* non-empty cell holds an entry of allOrgs.
C3_RegistryIsGrid ==
    /\ \A j, k \in 1..Len(allOrgs) : j # k => allOrgs[j] # allOrgs[k]
    /\ \A a \in Range(allOrgs) : a \in Live /\ Cardinality(CellsOf(a)) = 1
    /\ \A c \in Cells(size) : grid[c] # NULL => grid[c] \in Range(allOrgs)
    /\ Live = Range(allOrgs)

\* deleteCell has just removed an organism (eaten or starved) while others
\* remain.
C3_Witness ==
    /\ last.op \in {"doodle", "starve"}
    /\ last.ate \/ last.op = "starve"
    /\ Len(allOrgs) >= 2

\* ------------------------------------------------------------------ C4
\* C4: within one tick no organism has update invoked twice; a snapshot
\* entry is skipped only if its organism was removed earlier in the tick;
\* and when the loop ends every organism of the snapshot that is still alive
\* has been updated.
C4_OncePerTick ==
    /\ IsUpdate(last) => ~last.again
    /\ last.op = "skip" => last.removed
    /\ (pc = "loop" /\ idx > Len(snapshot)) =>
          \A a \in Live : a \notin bornNow => a \in actedNow

\* The loop has ended in a tick in which organisms acted, one was removed
\* before its turn and one was born.
C4_Witness ==
    /\ pc = "loop" /\ idx > Len(snapshot)
    /\ actedNow # {} /\ removedNow # {} /\ bornNow # {}
    /\ Len(snapshot) >= 3

\* ------------------------------------------------------------------ C5
\* C5: when the scheduler reaches the snapshot entry of an organism that was
\* removed earlier in the same tick, the entry is skipped: no update is
\* invoked through it.
C5_RemovedIsSkipped == IsUpdate(last) => ~last.removed

\* ------------------------------------------------------------------ C6
\* C6: when a Doodlebug starts its update with starveCounter >= 3, the update
\* removes that Doodlebug from grid, registry and heap and changes nothing
\* else: no other cell, no other organism, no offspring.
C6_StarvedOnlyRemovesItself ==
    [][(Turn /\ heap[snapshot[idx]].kind = "Doodlebug"
             /\ heap[snapshot[idx]].starveCount >= 3)
       => LET o == snapshot[idx]
          IN /\ heap' = [heap EXCEPT ![o] = FreeObj]
             /\ grid' = [grid EXCEPT ![Pos(o)] = NULL]
             /\ allOrgs' = SelectSeq(allOrgs, LAMBDA a : a # o)]_vars

\* A Doodlebug has just starved while another organism remains.
C6_Witness == last.op = "starve" /\ Len(allOrgs) >= 1

\* ------------------------------------------------------------------ C7
\* C7: in a world seeded with one Doodlebug and no Ant, the Doodlebug is
\* present with starveCounter 1, 2, 3 after advance() number 1, 2, 3 and is
\* absent after advance() number 4 (and from then on).
C7_StarvesAtFourthUpdate ==
    (seeded = [ants |-> 0, doodles |-> 1] /\ pc = "idle" /\ age >= 1) =>
        IF age <= 3
        THEN /\ Len(allOrgs) = 1
             /\ heap[allOrgs[1]].kind = "Doodlebug"
             /\ heap[allOrgs[1]].starveCount = age
        ELSE allOrgs = <<>> /\ Live = {} /\ \A c \in Cells(size) : grid[c] = NULL

\* The fourth advance() of the lone Doodlebug's world has returned, on a grid
\* where it could move.
C7_Witness ==
    seeded = [ants |-> 0, doodles |-> 1] /\ pc = "idle" /\ age = 4 /\ size >= 2

\* ------------------------------------------------------------------ C8
\* C8: when a non-starved Doodlebug is updated and an orthogonally adjacent
\* cell holds an Ant, it eats: exactly one adjacent Ant is removed from grid
\* and registry, the Doodlebug takes that Ant's cell, the cell it left is
\* empty (or holds its own offspring), its starveCounter is 0 and its
\* breedCounter has advanced by one step.  With a Doodlebug at (0,0), an Ant
\* at (0,1) and the Doodlebug first in the snapshot, the first advance()
\* leaves the Doodlebug at (0,1) with starveCounter 0 and breedCounter 1, no
\* Ant, and (0,0) empty.
AntsNextTo(o) ==
    {c \in Cells(size) : Adjacent(c, Pos(o)) /\ grid[c] # NULL /\ heap[grid[c]].kind = "Ant"}

AteAt(o, c) ==
    LET prey == grid[c]
        old == Pos(o)
    IN /\ grid'[c] = o
       /\ <<heap'[o].x, heap'[o].y>> = c
       /\ heap'[o].kind = "Doodlebug"
       /\ heap'[o].starveCount = 0
       /\ heap'[o].breedCount =
             IF heap[o].breedCount + 1 >= DOODLE_BREED THEN 0 ELSE heap[o].breedCount + 1
       /\ \/ grid'[old] = NULL
          \/ grid'[old] \in bornNow' /\ grid'[old] \notin Range(allOrgs) \ {prey}
       /\ heap'[prey].kind # "Ant"
       /\ \A d \in Cells(size) : grid'[d] # prey \/ prey \in bornNow'
       /\ \A a \in Addr \ {prey} :
             heap[a].kind = "Ant" => heap'[a] = heap[a] /\ a \in Range(allOrgs')
       /\ Cardinality({a \in Addr : heap'[a].kind = "Ant"}) =
             Cardinality({a \in Addr : heap[a].kind = "Ant"}) - 1

ScenarioB ==
    /\ size >= 2 /\ age = 1 /\ pc = "loop" /\ idx = 1
    /\ Len(allOrgs) = 2
    /\ grid[<<0, 0>>] # NULL /\ heap[grid[<<0, 0>>]].kind = "Doodlebug"
    /\ grid[<<0, 1>>] # NULL /\ heap[grid[<<0, 1>>]].kind = "Ant"
    /\ snapshot[1] = grid[<<0, 0>>]

C8_AdjacentAntIsEaten ==
    /\ [][(Turn /\ heap[snapshot[idx]].kind = "Doodlebug"
                /\ heap[snapshot[idx]].starveCount < DOODLE_STARVE
                /\ AntsNextTo(snapshot[idx]) # {})
          => \E c \in AntsNextTo(snapshot[idx]) : AteAt(snapshot[idx], c)]_vars
    /\ [][ScenarioB
          => LET d == snapshot[1]
             IN /\ grid' = [c \in Cells(size) |-> IF c = <<0, 1>> THEN d ELSE NULL]
                /\ allOrgs' = <<d>>
                /\ Live' = {d}
                /\ heap'[d] = [kind |-> "Doodlebug", x |-> 0, y |-> 1,
                               breedCount |-> 1, starveCount |-> 0]]_vars
    /\ [][(seeded = [ants |-> 1, doodles |-> 1] /\ age = 1 /\ pc = "loop"
             /\ Len(allOrgs) = 1)
          => UNCHANGED <<grid, heap, allOrgs>>]_vars

\* A Doodlebug that had gone hungry has just eaten an adjacent Ant.
C8_Witness ==
    /\ last.op = "doodle" /\ last.ate /\ age >= 2
    /\ heap[last.o].starveCount = 0 /\ heap[last.o].breedCount >= 2

\* ------------------------------------------------------------------ C9
\* C9: in every update that an organism survives, its breedCounter becomes
\* previous + 1, or 0 when previous + 1 reaches the species threshold (3 for
\* an Ant, 8 for a Doodlebug); it is reset in no other case.
C9_BreedCounterStep ==
    [][(Turn /\ ~(heap[snapshot[idx]].kind = "Doodlebug"
                  /\ heap[snapshot[idx]].starveCount >= 3))
       => LET o == snapshot[idx]
              threshold == IF heap[o].kind = "Ant" THEN 3 ELSE 8
          IN /\ heap'[o].kind = heap[o].kind
             /\ o \in Range(allOrgs')
             /\ heap'[o].breedCount =
                   IF heap[o].breedCount + 1 = threshold THEN 0
                   ELSE heap[o].breedCount + 1
             /\ heap[o].breedCount + 1 <= threshold]_vars

\* A Doodlebug's eighth update has just reset its breedCounter.
C9_Witness ==
    /\ last.op = "doodle" /\ age >= 8
    /\ heap[last.o].breedCount = 0 /\ ~last.newborn

\* ------------------------------------------------------------------ C10
\* C10: when breedCounter reaches the threshold and no cell is available for
\* the offspring, breedCounter is still reset to 0 and no organism is
\* created.  A single Ant on a 1x1 grid has breedCounter 1, 2, 0, 1, 2, 0,
\* ... after successive ticks and the population stays at exactly 1.
Boxed(o) ==
    \A c \in Cells(size) :
        Adjacent(c, Pos(o)) =>
            /\ grid[c] # NULL
            /\ heap[o].kind = "Doodlebug" => heap[grid[c]].kind = "Doodlebug"

C10_ResetWithoutOffspring ==
    /\ [][(Turn /\ Boxed(snapshot[idx])
                /\ ~(heap[snapshot[idx]].kind = "Doodlebug"
                     /\ heap[snapshot[idx]].starveCount >= 3)
                /\ heap[snapshot[idx]].breedCount + 1 >=
                      (IF heap[snapshot[idx]].kind = "Ant" THEN 3 ELSE 8))
          => /\ heap'[snapshot[idx]].breedCount = 0
             /\ allOrgs' = allOrgs
             /\ grid' = grid
             /\ Live' = Live]_vars
    /\ [](size = 1 /\ seeded = [ants |-> 1, doodles |-> 0]
          => /\ Len(allOrgs) = 1
             /\ Live = {allOrgs[1]}
             /\ heap[allOrgs[1]].kind = "Ant"
             /\ grid[<<0, 0>>] = allOrgs[1]
             /\ pc = "idle" => heap[allOrgs[1]].breedCount = age % 3)

\* The lone Ant of the 1x1 grid is in its second cycle: its counter has
\* just been reset a second time.
C10_Witness ==
    /\ size = 1 /\ seeded = [ants |-> 1, doodles |-> 0]
    /\ pc = "idle" /\ age = 6 /\ heap[allOrgs[1]].breedCount = 0

\* ------------------------------------------------------------------ C11
\* C11: whenever an update creates an offspring, the offspring is of the
\* parent's species, has breedCounter 0 and starveCounter 0, and is placed
\* in a previously empty cell that is orthogonally adjacent to the position
\* the parent holds after the move it made in that same update.
C11_OffspringNextToParent ==
    [][(Turn /\ last'.child # NULL)
       => LET o == snapshot[idx]
              k == last'.child
              at == <<heap'[k].x, heap'[k].y>>
          IN /\ heap'[k].kind = heap[o].kind
             /\ heap'[k].breedCount = 0
             /\ heap'[k].starveCount = 0
             /\ grid'[at] = k
             /\ grid[at] = NULL
             /\ Adjacent(at, <<heap'[o].x, heap'[o].y>>)]_vars

\* ------------------------------------------------------------------ C12
\* C12: an eaten Ant cannot be eaten again: an update removes at most one
\* Ant, only a live Ant is ever removed, and once removed the Ant is in
\* neither the grid nor the registry, so nothing later in the tick finds it
\* (an entry of allOrgs at its address is an organism born after it died).
AntsGoneIn(h1, h2) == {a \in Addr : h1[a].kind = "Ant" /\ h2[a].kind # "Ant"}

C12_EatenOnce ==
    /\ [][/\ Cardinality(AntsGoneIn(heap, heap')) <= 1
          /\ \A a \in AntsGoneIn(heap, heap') :
                /\ Turn /\ heap[snapshot[idx]].kind = "Doodlebug"
                /\ a \in Range(allOrgs) /\ grid[Pos(a)] = a
                /\ a \in Range(allOrgs') => a \in bornNow'
                /\ \A c \in Cells(size) : grid'[c] = a => a \in bornNow'
          /\ last'.ate => Cardinality(AntsGoneIn(heap, heap')) = 1]_vars
    /\ [](/\ \A c \in Cells(size) : grid[c] # NULL => heap[grid[c]].kind # "free"
          /\ \A a \in Range(allOrgs) : heap[a].kind # "free"
          /\ \A a \in removedNow : a \in Range(allOrgs) => a \in bornNow)

\* An Ant was eaten earlier in the tick and a later update of the same tick
\* has run.
C12_Witness ==
    /\ IsUpdate(last) /\ ~last.ate
    /\ removedNow # {} /\ Cardinality(Live) >= 2

\* ------------------------------------------------------------------ C13
\* C13: the engine never halts itself.  update() increments the tick counter
\* by exactly 1, on entry and nowhere else; its loop advances by one snapshot
\* entry per step, each entry being skipped or dispatched to a live Ant or
\* Doodlebug, and returns after the last entry; after it returns update()
\* can be invoked again, whatever is left alive; with an empty population it
\* changes nothing but the tick counter.
C13_NeverHalts ==
    /\ [][/\ (pc = "idle") => (pc' = "loop" /\ age' = age + 1 /\ idx' = 1)
          /\ (pc = "loop") => age' = age
          /\ (pc = "loop" /\ pc' = "loop") =>
                (idx' = idx + 1 /\ snapshot' = snapshot /\ idx <= Len(snapshot))
          /\ (pc = "loop" /\ pc' = "idle") => idx = Len(snapshot) + 1
          /\ allOrgs = <<>> => UNCHANGED <<grid, heap, allOrgs, size>>]_vars
    /\ [](/\ pc \in {"idle", "loop"}
          /\ pc = "loop" => idx \in 1..(Len(snapshot) + 1)
          /\ (pc = "loop" /\ idx <= Len(snapshot)) =>
                \/ snapshot[idx] \notin Range(allOrgs)
                \/ heap[snapshot[idx]].kind \in {"Ant", "Doodlebug"}
          /\ (pc = "idle" /\ age * size * size * size * size < MaxWork) => ENABLED Advance)

\* update() has returned from a tick that began with organisms and left
\* none alive, and is invoked again.
C13_Witness ==
    /\ last.op = "advance" /\ age >= 5
    /\ allOrgs = <<>> /\ snapshot = <<>> /\ seeded.doodles >= 1

\* ------------------------------------------------------------------ C14
\* C14: whenever an organism's breedCounter reaches its threshold during
\* its update and a cell orthogonally adjacent to the position it holds
\* after this update's move is empty at breeding time, the update creates
\* an offspring; in particular an organism that moved, whose vacated cell is
\* an empty neighbor of its new position, breeds when its counter reaches
\* the threshold.
C14_BreedsWhenRoom ==
    [][(/\ Turn
        /\ ~(heap[snapshot[idx]].kind = "Doodlebug"
             /\ heap[snapshot[idx]].starveCount >= 3)
        /\ heap[snapshot[idx]].breedCount + 1 >=
              (IF heap[snapshot[idx]].kind = "Ant" THEN 3 ELSE 8)
        /\ \E c \in Cells(size) :
              /\ Adjacent(c, <<heap'[snapshot[idx]].x, heap'[snapshot[idx]].y>>)
              /\ grid'[c] \in {NULL, last'.child})
       => last'.child # NULL]_vars

\* ------------------------------------------------------------------ C15
\* C15: in its movement phase an Ant moves to an empty orthogonally adjacent
\* in-bounds cell whenever one exists and stays in place only when none is
\* empty; a move changes its position by exactly one orthogonal step,
\* empties the cell it left and never overwrites an occupied cell.
C15_AntMovesIfItCan ==
    [][(Turn /\ heap[snapshot[idx]].kind = "Ant")
       => LET o == snapshot[idx]
              from == Pos(o)
              to == <<heap'[o].x, heap'[o].y>>
              room == \E c \in Cells(size) : Adjacent(c, from) /\ grid[c] = NULL
          IN /\ room <=> to # from
             /\ to = from => grid'[from] = o
             /\ to # from =>
                   /\ to \in Cells(size) /\ Adjacent(from, to)
                   /\ grid[to] = NULL /\ grid'[to] = o
                   /\ grid'[from] = NULL
             /\ \A c \in Cells(size) :
                   (grid[c] # NULL /\ c # from) => grid'[c] = grid[c]]_vars

\* An Ant with a neighbour of its own has just moved.
C15_Witness ==
    /\ last.op = "ant" /\ last.moved
    /\ Cardinality(Live) >= 2 /\ size >= 2

\* ------------------------------------------------------------------ C16
\* C16: in a Doodlebug update in which no Ant is eaten, the Doodlebug moves
\* to an empty adjacent cell if one exists (otherwise stays) and its
\* starveCounter increases by exactly 1 whether or not it moved; in an
\* update in which it eats it makes no further move (it ends in the eaten
\* Ant's cell) and its starveCounter is 0 at the end of the update.
C16_HungryMoveCounts ==
    [][(Turn /\ heap[snapshot[idx]].kind = "Doodlebug"
             /\ heap[snapshot[idx]].starveCount < 3)
       => LET o == snapshot[idx]
              from == Pos(o)
              to == <<heap'[o].x, heap'[o].y>>
              room == \E c \in Cells(size) : Adjacent(c, from) /\ grid[c] = NULL
          IN /\ grid'[to] = o
             /\ ~last'.ate =>
                   /\ heap'[o].starveCount = heap[o].starveCount + 1
                   /\ room <=> to # from
                   /\ to # from =>
                         /\ Adjacent(from, to) /\ grid[to] = NULL
                         /\ grid'[from] = NULL
             /\ last'.ate =>
                   /\ heap'[o].starveCount = 0
                   /\ Adjacent(from, to) /\ grid'[from] = NULL
                   /\ grid[to] # NULL /\ heap[grid[to]].kind = "Ant"]_vars

\* A Doodlebug that ate nothing has just moved for the second time running.
C16_Witness ==
    /\ last.op = "doodle" /\ ~last.ate /\ last.moved
    /\ heap[last.o].starveCount = 2

\* ------------------------------------------------------------------ C17
\* C17: between updates every counter is non-negative, an Ant's
\* breedCounter is in 0..2, a Doodlebug's breedCounter is in 0..7 and its
\* starveCounter in 0..3; a step changes a counter of an organism only by
\* +1 or by reset to 0; and a Doodlebug whose starveCounter is 3 or more
\* when its turn comes is removed instead of performing an ordinary update.
SameOrganism(a) ==
    /\ heap[a].kind # "free" /\ heap'[a].kind = heap[a].kind
    /\ a \notin bornNow' \ bornNow

C17_CounterRanges ==
    /\ [](\A a \in Live :
             /\ heap[a].breedCount >= 0 /\ heap[a].starveCount >= 0
             /\ heap[a].kind = "Ant" =>
                   heap[a].breedCount \in 0..2 /\ heap[a].starveCount = 0
             /\ heap[a].kind = "Doodlebug" =>
                   heap[a].breedCount \in 0..7 /\ heap[a].starveCount \in 0..3)
    /\ [][/\ \A a \in Addr : SameOrganism(a) =>
                /\ heap'[a].breedCount \in
                      {heap[a].breedCount, heap[a].breedCount + 1, 0}
                /\ heap'[a].starveCount \in
                      {heap[a].starveCount, heap[a].starveCount + 1, 0}
          /\ (Turn /\ heap[snapshot[idx]].kind = "Doodlebug"
                   /\ heap[snapshot[idx]].starveCount >= 3)
                => /\ last'.op = "starve"
                   /\ heap'[snapshot[idx]].kind = "free"
                   /\ snapshot[idx] \notin Range(allOrgs')]_vars

\* A Doodlebug at breedCounter 7 with starveCounter 3 awaits its turn.
C17_Witness ==
    \E a \in Live :
        /\ heap[a].kind = "Doodlebug"
        /\ heap[a].breedCount = 7 /\ heap[a].starveCount = 3

\* ------------------------------------------------------------------ C18
\* C18: the grid accessors are total.  On coordinates outside the grid
\* getCell returns the absent value and setCell and deleteCell change
\* nothing; inside it getCell returns the cell's content.  getNeighbors(x, y)
\* returns, once each, exactly the in-bounds cells among (x, y+1), (x, y-1),
\* (x+1, y), (x-1, y): no diagonals, no wraparound, so 4 cells for an
\* interior cell, 3 on an edge, 2 in a corner and none on a 1x1 grid.
Coords == (-1)..size

OnBorder(v) == IF v = 0 \/ v = size - 1 THEN 1 ELSE 0

C18_AccessorsTotal ==
    \A x, y \in Coords :
        LET nbrs == getNeighbors(size, x, y)
        IN /\ <<x, y>> \notin Cells(size) =>
                 /\ getCell(World, x, y) = NULL
                 /\ deleteCell(World, x, y) = World
                 /\ \A org \in Addr \cup {NULL} : setCell(World, x, y, org) = World
           /\ <<x, y>> \in Cells(size) =>
                 /\ getCell(World, x, y) = grid[<<x, y>>]
                 /\ Len(nbrs) = IF size = 1 THEN 0
                                ELSE 4 - OnBorder(x) - OnBorder(y)
           /\ Range(nbrs) = {c \in Cells(size) : Adjacent(c, <<x, y>>)}
           /\ Len(nbrs) = Cardinality(Range(nbrs))

\* An organism has just moved into the interior cell of a 3x3 grid, whose
\* four neighbours include an occupied one.
C18_Witness ==
    /\ size = 3 /\ IsUpdate(last) /\ last.moved
    /\ grid[<<1, 1>>] = last.o
    /\ \E c \in Cells(size) : Adjacent(c, <<1, 1>>) /\ grid[c] # NULL

\* ------------------------------------------------------------------ C19
\* C19: a species that is extinct stays extinct, and predators do not
\* outlive prey.  From a state with no Ants no Ant is ever created; a
\* Doodlebug reaches the breed threshold at most once after the Ants are
\* gone; every Doodlebug is removed by the seventh tick after the tick in
\* which the last Ant went (extinct.since, 0 when none was seeded), and
\* from then on grid and registry stay empty.
NoAnts == \A a \in Addr : heap[a].kind # "Ant"

NoDoodlebugs == \A a \in Addr : heap[a].kind # "Doodlebug"

C19_ExtinctStaysExtinct ==
    /\ [][/\ NoAnts => NoAnts'
          /\ NoDoodlebugs => NoDoodlebugs'
          /\ (NoAnts /\ Turn /\ heap[snapshot[idx]].starveCount < 3
                     /\ heap[snapshot[idx]].breedCount + 1 >= DOODLE_BREED)
                => snapshot[idx] \notin extinct.bred
          /\ Live = {} => Live' = {} /\ grid' = grid /\ allOrgs' = allOrgs]_vars
    /\ [](/\ NoAnts <=> extinct.since >= 0
          /\ (NoAnts /\ pc = "idle" /\ age >= extinct.since + 7) => Live = {}
          /\ Live = {} =>
                /\ allOrgs = <<>>
                /\ \A c \in Cells(size) : grid[c] = NULL)

\* The last Doodlebug, born after the Ants had gone, has starved in the
\* seventh tick after the last Ant was eaten.
C19_Witness ==
    /\ last.op = "starve" /\ Live = {}
    /\ seeded.ants >= 1 /\ extinct.since >= 1
    /\ age = extinct.since + 7

\* ------------------------------------------------------------------ C20
\* C20: one organism's update changes neither the position nor the
\* breedCounter nor the starveCounter of any other organism that survives
\* it, and changes the content of at most three grid cells: the cell it
\* started in, the cell it moved or ate into, and the cell of its
\* offspring; an Ant's update removes no organism.
ChangedCells == {c \in Cells(size) : grid'[c] # grid[c]}

C20_UpdateFrame ==
    [][Turn
       => LET o == snapshot[idx]
              k == last'.child
              others == ((Live \cap Live') \ {o}) \ {k}
              own == IF heap'[o].kind = "free" THEN {Pos(o)}
                     ELSE {Pos(o), <<heap'[o].x, heap'[o].y>>}
              born == IF k = NULL THEN {} ELSE {<<heap'[k].x, heap'[k].y>>}
          IN /\ \A a \in others :
                   /\ heap'[a] = heap[a]
                   /\ grid'[Pos(a)] = a
                   /\ a \in Range(allOrgs) => a \in Range(allOrgs')
             /\ ChangedCells \subseteq own \cup born
             /\ Cardinality(ChangedCells) <= 3
             /\ heap[o].kind = "Ant" =>
                   /\ \A a \in Live : heap'[a].kind = heap[a].kind
                   /\ Range(allOrgs) \subseteq Range(allOrgs')
                   /\ Len(allOrgs') = Len(allOrgs) + (IF k = NULL THEN 0 ELSE 1)]_vars

\* An update has just changed three cells: the organism moved and bred
\* while a third organism looked on.
C20_Witness ==
    /\ IsUpdate(last) /\ last.moved /\ last.child # NULL
    /\ \E a \in Live : a # last.o /\ a # last.child /\ a \notin bornNow

====
